---------------------------- MODULE Spec2Model ----------------------------
(***************************************************************************)
(* Model of the stammering detector of services/stammering_service.py.     *)
(*                                                                         *)
(* A text is a sequence of characters; a character is a one-symbol string. *)
(* "sz" stands for U+00DF (LATIN SMALL LETTER SHARP S), whose Python       *)
(* upper() is the two characters "SS" and whose lower() is itself.         *)
(* One behaviour of the model is one call of detect(source, translated):   *)
(* the elongation check, the tokenization, the loop over n-gram sizes and  *)
(* the return.                                                             *)
(***************************************************************************)
EXTENDS Integers, Sequences, FiniteSets

(***************************************************************************)
(* Program constants.                                                      *)
(***************************************************************************)
min_repetitions == 3
max_ngram_size == 5
ElongationFloor == 40
ElongationRatio == 3
ConsecutiveRatio == 2

(***************************************************************************)
(* Bounds of the input families.                                           *)
(***************************************************************************)
MaxSourceTokens == 2
MaxTransTokens == 6
MaxSourceReps == 4
MaxRun == 8
MaxTail == 3
MaxCaseTokens == 3
MaxCaseSourceTokens == 1
MaxAppend == 2

(***************************************************************************)
(* Characters: str.isspace, str.isalnum, str.lower and the regular        *)
(* expression's "." on the characters the model uses.  UpperChar and Upper *)
(* are Python's str.upper, which the code never calls: the case            *)
(* insensitivity property applies it to the inputs.                        *)
(***************************************************************************)
IsSpace(c) == c \in {" ", "\t", "\n"}

IsAlnum(c) == c \in {"a", "A", "b", "B", "o", "O", "s", "S", "sz"}

DotMatches(c) == c # "\n"

LowerChar(c) ==
  CASE c = "A" -> <<"a">>
    [] c = "B" -> <<"b">>
    [] c = "O" -> <<"o">>
    [] c = "S" -> <<"s">>
    [] OTHER -> <<c>>

UpperChar(c) ==
  CASE c = "a" -> <<"A">>
    [] c = "b" -> <<"B">>
    [] c = "o" -> <<"O">>
    [] c = "s" -> <<"S">>
    [] c = "sz" -> <<"S", "S">>
    [] OTHER -> <<c>>

RECURSIVE Lower(_)
Lower(text) ==
  IF Len(text) = 0 THEN <<>>
  ELSE IF Len(text) = 1 THEN LowerChar(text[1])
  ELSE Lower(SubSeq(text, 1, Len(text) \div 2))
       \o Lower(SubSeq(text, Len(text) \div 2 + 1, Len(text)))

RECURSIVE Upper(_)
Upper(text) ==
  IF Len(text) = 0 THEN <<>>
  ELSE IF Len(text) = 1 THEN UpperChar(text[1])
  ELSE Upper(SubSeq(text, 1, Len(text) \div 2))
       \o Upper(SubSeq(text, Len(text) \div 2 + 1, Len(text)))

(***************************************************************************)
(* re.finditer(r'(.)\1{2,}', text): the matches, left to right, greedy and *)
(* non-overlapping.                                                        *)
(***************************************************************************)
RunFrom(text, i) ==
  CHOOSE m \in 1..(Len(text) - i + 1) :
    /\ \A k \in i..(i + m - 1) : text[k] = text[i]
    /\ i + m > Len(text) \/ text[i + m] # text[i]

RECURSIVE FindIter(_, _)
FindIter(text, i) ==
  IF i > Len(text) THEN <<>>
  ELSE LET r == RunFrom(text, i)
       IN  IF DotMatches(text[i]) /\ r >= 3
           THEN <<SubSeq(text, i, i + r - 1)>> \o FindIter(text, i + r)
           ELSE FindIter(text, i + 1)

SumAlnumMatches_overwrite(matches) ==
  LET alnum == {i \in 1..Len(matches) : IsAlnum(matches[i][1])}
  IN  IF alnum = {} THEN 0
      ELSE Len(matches[CHOOSE i \in alnum : \A j \in alnum : j <= i])

RECURSIVE SumAlnumMatches(_)
SumAlnumMatches(matches) ==
  IF matches = <<>> THEN 0
  ELSE (IF IsAlnum(Head(matches)[1]) THEN Len(Head(matches)) ELSE 0)
       + SumAlnumMatches(Tail(matches))

ElongationCount(text) == SumAlnumMatches(FindIter(Lower(text), 1))

ElongationThreshold_floor_inclusive(translated_count, source_count) ==
  translated_count >= ElongationFloor
  /\ translated_count > source_count * ElongationRatio

ElongationThreshold(translated_count, source_count) ==
  translated_count > ElongationFloor
  /\ translated_count > source_count * ElongationRatio

has_excessive_elongation(translated, source) ==
  ElongationThreshold(ElongationCount(translated), ElongationCount(source))

(***************************************************************************)
(* _tokenize: text.split() and the lowercasing of each token.              *)
(***************************************************************************)
TokenStarts(text) ==
  {i \in 1..Len(text) : ~IsSpace(text[i]) /\ (i = 1 \/ IsSpace(text[i - 1]))}

TokenEnd(text, i) ==
  CHOOSE j \in i..Len(text) :
    /\ \A k \in i..j : ~IsSpace(text[k])
    /\ j = Len(text) \/ IsSpace(text[j + 1])

Split(text) ==
  LET starts == TokenStarts(text)
  IN  [k \in 1..Cardinality(starts) |->
         LET i == CHOOSE s \in starts :
                    Cardinality({j \in starts : j < s}) = k - 1
         IN  SubSeq(text, i, TokenEnd(text, i))]

tokenize(text) ==
  LET tokens == Split(text)
  IN  [i \in 1..Len(tokens) |-> Lower(tokens[i])]

(***************************************************************************)
(* _get_ngrams, Counter, _count_max_consecutive(_any).                     *)
(***************************************************************************)
get_ngrams(tokens, n) ==
  [i \in 1..(Len(tokens) - n + 1) |-> SubSeq(tokens, i, i + n - 1)]

Counter(ngrams) ==
  [g \in {ngrams[i] : i \in 1..Len(ngrams)} |->
     Cardinality({i \in 1..Len(ngrams) : ngrams[i] = g})]

PyMaxError == 0 - 1

PyMax(S) == IF S = {} THEN PyMaxError ELSE CHOOSE m \in S : \A k \in S : k <= m

CounterValues(counts) == {counts[g] : g \in DOMAIN counts}

MaxSourceRepetition_unguarded(source_ngram_counts) ==
  PyMax(CounterValues(source_ngram_counts))

MaxSourceRepetition(source_ngram_counts) ==
  IF DOMAIN source_ngram_counts # {}
  THEN PyMax(CounterValues(source_ngram_counts))
  ELSE 0

RECURSIVE ConsecutiveScan(_, _, _, _)
ConsecutiveScan(ngrams, target, max_count, current_count) ==
  IF ngrams = <<>> THEN max_count
  ELSE IF Head(ngrams) = target
       THEN ConsecutiveScan(Tail(ngrams), target,
                            IF current_count + 1 > max_count
                            THEN current_count + 1 ELSE max_count,
                            current_count + 1)
       ELSE ConsecutiveScan(Tail(ngrams), target, max_count, 0)

count_max_consecutive(ngrams, target) == ConsecutiveScan(ngrams, target, 0, 0)

RECURSIVE ConsecutiveAnyScan(_, _, _, _)
ConsecutiveAnyScan(ngrams, prev_ngram, max_count, current_count) ==
  IF ngrams = <<>> THEN max_count
  ELSE IF Head(ngrams) = prev_ngram
       THEN ConsecutiveAnyScan(Tail(ngrams), prev_ngram,
                               IF current_count + 1 > max_count
                               THEN current_count + 1 ELSE max_count,
                               current_count + 1)
       ELSE ConsecutiveAnyScan(Tail(ngrams), Head(ngrams), max_count, 1)

count_max_consecutive_any_from_zero(ngrams) ==
  IF ngrams = <<>> THEN 0
  ELSE ConsecutiveAnyScan(Tail(ngrams), Head(ngrams), 0, 0)

count_max_consecutive_any(ngrams) ==
  IF ngrams = <<>> THEN 0
  ELSE ConsecutiveAnyScan(Tail(ngrams), Head(ngrams), 1, 1)

(***************************************************************************)
(* _has_ngram_repetition: the frequency check (lines 97-115) and the       *)
(* consecutive-run check (lines 117-138).  count > max * 1.5 is compared   *)
(* on integers as 2 * count > 3 * max.                                     *)
(***************************************************************************)
ExceedsSource(count, max_source_repetition) ==
  2 * count > 3 * max_source_repetition

FrequencyBranch_phrases_unscaled(n, count, max_source_repetition) ==
  IF n > 1
  THEN count > max_source_repetition
  ELSE ExceedsSource(count, max_source_repetition)

FrequencyBranch(n, count, max_source_repetition) ==
  IF n > 1
  THEN ExceedsSource(count, max_source_repetition)
  ELSE ExceedsSource(count, max_source_repetition)

FrequencyCheck_no_floor(translated_ngrams, source_ngrams, n) ==
  LET translated_ngram_counts == Counter(translated_ngrams)
      max_source_repetition == MaxSourceRepetition(Counter(source_ngrams))
  IN  \E ngram \in DOMAIN translated_ngram_counts :
        FrequencyBranch(n, translated_ngram_counts[ngram],
                        max_source_repetition)

FrequencyCheck(translated_ngrams, source_ngrams, n) ==
  LET translated_ngram_counts == Counter(translated_ngrams)
      max_source_repetition == MaxSourceRepetition(Counter(source_ngrams))
  IN  \E ngram \in DOMAIN translated_ngram_counts :
        /\ translated_ngram_counts[ngram] >= min_repetitions
        /\ FrequencyBranch(n, translated_ngram_counts[ngram],
                           max_source_repetition)

WindowIdentical_short_window(ngrams, i) ==
  Cardinality({ngrams[j] : j \in i..(i + min_repetitions - 2)}) = 1

WindowIdentical(ngrams, i) ==
  Cardinality({ngrams[j] : j \in i..(i + min_repetitions - 1)}) = 1

ConsecutiveDecision_inclusive(max_source, max_translated) ==
  IF max_source >= min_repetitions
  THEN max_translated >= max_source * ConsecutiveRatio
  ELSE TRUE

ConsecutiveDecision(max_source_consecutive, max_translated_consecutive) ==
  IF max_source_consecutive >= min_repetitions
  THEN max_translated_consecutive > max_source_consecutive * ConsecutiveRatio
  ELSE TRUE

ConsecutiveCheck_last_window_missed(translated_ngrams, source_ngrams) ==
  \E i \in 1..(Len(translated_ngrams) - min_repetitions) :
    /\ WindowIdentical(translated_ngrams, i)
    /\ ConsecutiveDecision(
         count_max_consecutive_any(source_ngrams),
         count_max_consecutive(translated_ngrams, translated_ngrams[i]))

ConsecutiveCheck(translated_ngrams, source_ngrams) ==
  \E i \in 1..(Len(translated_ngrams) - min_repetitions + 1) :
    /\ WindowIdentical(translated_ngrams, i)
    /\ ConsecutiveDecision(
         count_max_consecutive_any(source_ngrams),
         count_max_consecutive(translated_ngrams, translated_ngrams[i]))

has_ngram_repetition_frequency_only(translated_tokens_, source_tokens_, n_) ==
  FrequencyCheck(get_ngrams(translated_tokens_, n_),
                 get_ngrams(source_tokens_, n_), n_)

has_ngram_repetition(translated_tokens_, source_tokens_, n_) ==
  LET translated_ngrams == get_ngrams(translated_tokens_, n_)
      source_ngrams == get_ngrams(source_tokens_, n_)
  IN  \/ FrequencyCheck(translated_ngrams, source_ngrams, n_)
      \/ ConsecutiveCheck(translated_ngrams, source_ngrams)

NgramRaises(source_tokens_, n_) ==
  MaxSourceRepetition(Counter(get_ngrams(source_tokens_, n_))) = PyMaxError

(***************************************************************************)
(* _has_phrase_repetition and detect as functions of the two texts.        *)
(***************************************************************************)
Min(a, b) == IF a < b THEN a ELSE b

LoopBound_inclusive(translated_tokens_) ==
  Min(max_ngram_size + 1, Len(translated_tokens_) + 1)

LoopBound(translated_tokens_) ==
  Min(max_ngram_size + 1, Len(translated_tokens_))

has_phrase_repetition(translated, source) ==
  LET tt == tokenize(translated)
      st == tokenize(source)
  IN  \E k \in 1..(LoopBound(tt) - 1) : has_ngram_repetition(tt, st, k)

detect(source, translated) ==
  IF has_excessive_elongation(translated, source) THEN TRUE
  ELSE IF has_phrase_repetition(translated, source) THEN TRUE
  ELSE FALSE

(***************************************************************************)
(* The input families.  Repeat and Join build texts; every family draws    *)
(* the pair (source, translated) of one call.                              *)
(***************************************************************************)
Repeat(unit, k) ==
  [i \in 1..(k * Len(unit)) |-> unit[((i - 1) % Len(unit)) + 1]]

RECURSIVE Join(_, _)
Join(words, sep) ==
  IF words = <<>> THEN <<>>
  ELSE IF Len(words) = 1 THEN Head(words)
  ELSE Head(words) \o sep \o Join(Tail(words), sep)

WordSeqs(vocab, k) == UNION {[1..m -> vocab] : m \in 0..k}

Render(words, style) ==
  IF style = "plain" THEN Join(words, <<" ">>)
  ELSE <<" ">> \o Join(words, <<"\n", "\n", "\n">>) \o <<"\t">>

Vocabulary == {<<"a">>, <<"B">>}

CaseVocabulary == {<<"sz">>, <<"s", "s">>, <<"S", "S">>}

ElongChars == {"o", "O", "?", " "}

WordTexts ==
  {<<Render(sw, style), Render(tw, style)>> :
     sw \in WordSeqs(Vocabulary, MaxSourceTokens),
     tw \in WordSeqs(Vocabulary, MaxTransTokens),
     style \in {"plain", "padded"}}

RunTexts ==
  {<<Join(Repeat(<<<<"a">>>>, p) \o Repeat(<<<<"b">>>>, q)
          \o Repeat(<<<<"a">>>>, r), <<" ">>),
     Join(Repeat(<<<<"b">>>>, lead) \o Repeat(<<<<"a">>>>, k), <<" ">>)>> :
     p \in 0..MaxSourceReps, q \in 0..MaxSourceReps, r \in 0..MaxSourceReps,
     lead \in 0..1, k \in 0..MaxRun}

ElongTexts ==
  {<<Repeat(<<sc>>, sr), Repeat(<<c1>>, r1) \o Repeat(<<c2>>, r2)>> :
     sc \in ElongChars,
     sr \in {0} \cup ((ElongationFloor \div ElongationRatio)
                       ..(ElongationFloor \div ElongationRatio + 2)),
     c1 \in ElongChars,
     r1 \in (ElongationFloor - 1)..(ElongationFloor + 3),
     c2 \in ElongChars, r2 \in 0..MaxTail}

CaseTexts ==
  {<<Join(sw, <<" ">>), Join(tw, <<" ">>)>> :
     sw \in WordSeqs(CaseVocabulary, MaxCaseSourceTokens),
     tw \in WordSeqs(CaseVocabulary, MaxCaseTokens)}

CycleTexts ==
  {<<Join(Repeat(<<<<"a">>>>, copies), <<" ">>),
     Join(SubSeq(Repeat(<<<<"a">>, <<"b">>, <<"a", "b">>>>, len), 1, len),
          <<" ">>)>> :
     copies \in 0..MaxSourceReps, len \in 0..MaxRun}

(***************************************************************************)
(* One call of detect as a state machine.  trace is the history of the     *)
(* steps the call has executed; detector holds the fields of the          *)
(* StammeringDetector the call constructed, response the answer of the     *)
(* /stammering endpoint, if the call came through it.                      *)
(***************************************************************************)
VARIABLES source_sentence, translated_sentence, pc, result,
          translated_tokens, source_tokens, n, trace, detector, response

vars == <<source_sentence, translated_sentence, pc, result,
          translated_tokens, source_tokens, n, trace, detector, response>>

NewDetector ==
  [min_repetitions |-> min_repetitions, max_ngram_size |-> max_ngram_size]

NoResponse == [status |-> 0]

Step(name, size) == [step |-> name, size |-> size]

InitCall(pair) ==
  /\ source_sentence = pair[1]
  /\ translated_sentence = pair[2]
  /\ pc = "detect"
  /\ result = FALSE
  /\ translated_tokens = <<>>
  /\ source_tokens = <<>>
  /\ n = 0
  /\ trace = <<>>
  /\ detector = NewDetector
  /\ response = NoResponse

Init ==
  \/ \E pair \in WordTexts : InitCall(pair)
  \/ \E pair \in RunTexts : InitCall(pair)
  \/ \E pair \in ElongTexts : InitCall(pair)
  \/ \E pair \in CaseTexts : InitCall(pair)
  \/ \E pair \in CycleTexts : InitCall(pair)

Return(value) ==
  /\ result' = value
  /\ pc' = "done"

CheckElongation ==
  /\ pc = "detect"
  /\ trace' = Append(trace, Step("elongation", 0))
  /\ IF has_excessive_elongation(translated_sentence, source_sentence)
     THEN Return(TRUE)
     ELSE pc' = "phrase" /\ UNCHANGED result
  /\ UNCHANGED <<source_sentence, translated_sentence, translated_tokens,
                 source_tokens, n, detector, response>>

Tokenize ==
  /\ pc = "phrase"
  /\ translated_tokens' = tokenize(translated_sentence)
  /\ source_tokens' = tokenize(source_sentence)
  /\ n' = 1
  /\ pc' = "loop"
  /\ trace' = Append(trace, Step("tokenize", 0))
  /\ UNCHANGED <<source_sentence, translated_sentence, result, detector,
                 response>>

CheckNgram_no_break ==
  /\ pc = "loop"
  /\ n < LoopBound(translated_tokens)
  /\ trace' = Append(trace, Step("ngram", n))
  /\ n' = n + 1
  /\ result' = (result \/ has_ngram_repetition(translated_tokens,
                                                source_tokens, n))
  /\ UNCHANGED <<pc, source_sentence, translated_sentence, translated_tokens,
                 source_tokens, detector, response>>

CheckNgram ==
  /\ pc = "loop"
  /\ n < LoopBound(translated_tokens)
  /\ trace' = Append(trace, Step("ngram", n))
  /\ IF NgramRaises(source_tokens, n)
     THEN pc' = "raised" /\ UNCHANGED <<result, n>>
     ELSE IF has_ngram_repetition(translated_tokens, source_tokens, n)
          THEN Return(TRUE) /\ UNCHANGED n
          ELSE n' = n + 1 /\ UNCHANGED <<pc, result>>
  /\ UNCHANGED <<source_sentence, translated_sentence, translated_tokens,
                 source_tokens, detector, response>>

LoopExit ==
  /\ pc = "loop"
  /\ ~(n < LoopBound(translated_tokens))
  /\ Return(FALSE)
  /\ UNCHANGED <<source_sentence, translated_sentence, translated_tokens,
                 source_tokens, n, trace, detector, response>>

Next == CheckElongation \/ Tokenize \/ CheckNgram \/ LoopExit

Spec == Init /\ [][Next]_vars

(***************************************************************************)
(* Concurrent calls of detect_stammering.  Every variable is a function of *)
(* the call: the arguments, the position and the result belong to the      *)
(* call, detector[c] is the StammeringDetector that call c constructs      *)
(* (line 181), and the locals of _has_phrase_repetition live in the frame  *)
(* of the call.  A step of one call is atomic; calls interleave freely.    *)
(***************************************************************************)
NumCalls == 2

Calls == 1..NumCalls

NoDetector == [min_repetitions |-> 0, max_ngram_size |-> 0]

ConcTexts ==
  {<<<<>>, <<>>>>,
   <<Join(Repeat(<<<<"a">>>>, 3), <<" ">>),
     Join(Repeat(<<<<"a">>>>, 3), <<" ">>)>>,
   <<<<>>, Join(Repeat(<<<<"a">>>>, 3), <<" ">>)>>,
   <<Join(Repeat(<<<<"a">>>>, 2), <<" ">>),
     Join(Repeat(<<<<"a">>, <<"b">>>>, 3), <<" ">>)>>,
   <<<<>>, Repeat(<<"o">>, ElongationFloor + 1)>>}

Frame_shared(c) == 1

Frame(c) == c

DetectorLoopBound(d, translated_tokens_) ==
  Min(d.max_ngram_size + 1, Len(translated_tokens_))

ConcInit ==
  \E args \in [Calls -> ConcTexts] :
    /\ source_sentence = [c \in Calls |-> args[c][1]]
    /\ translated_sentence = [c \in Calls |-> args[c][2]]
    /\ pc = [c \in Calls |-> "call"]
    /\ result = [c \in Calls |-> FALSE]
    /\ translated_tokens = [c \in Calls |-> <<>>]
    /\ source_tokens = [c \in Calls |-> <<>>]
    /\ n = [c \in Calls |-> 0]
    /\ trace = [c \in Calls |-> <<>>]
    /\ detector = [c \in Calls |-> NoDetector]
    /\ response = NoResponse

CallReturn(c, value) ==
  /\ result' = [result EXCEPT ![c] = value]
  /\ pc' = [pc EXCEPT ![c] = "done"]

CallCreate(c) ==
  /\ pc[c] = "call"
  /\ detector' = [detector EXCEPT ![c] = NewDetector]
  /\ pc' = [pc EXCEPT ![c] = "detect"]
  /\ UNCHANGED <<source_sentence, translated_sentence, result,
                 translated_tokens, source_tokens, n, trace, response>>

CallElongation(c) ==
  /\ pc[c] = "detect"
  /\ trace' = [trace EXCEPT ![c] = Append(@, Step("elongation", 0))]
  /\ IF has_excessive_elongation(translated_sentence[c], source_sentence[c])
     THEN CallReturn(c, TRUE)
     ELSE pc' = [pc EXCEPT ![c] = "phrase"] /\ UNCHANGED result
  /\ UNCHANGED <<source_sentence, translated_sentence, translated_tokens,
                 source_tokens, n, detector, response>>

CallTokenize(c) ==
  /\ pc[c] = "phrase"
  /\ translated_tokens' =
       [translated_tokens EXCEPT ![Frame(c)] = tokenize(translated_sentence[c])]
  /\ source_tokens' =
       [source_tokens EXCEPT ![Frame(c)] = tokenize(source_sentence[c])]
  /\ n' = [n EXCEPT ![Frame(c)] = 1]
  /\ pc' = [pc EXCEPT ![c] = "loop"]
  /\ trace' = [trace EXCEPT ![c] = Append(@, Step("tokenize", 0))]
  /\ UNCHANGED <<source_sentence, translated_sentence, result, detector,
                 response>>

CallNgram(c) ==
  /\ pc[c] = "loop"
  /\ n[Frame(c)] < DetectorLoopBound(detector[c], translated_tokens[Frame(c)])
  /\ trace' = [trace EXCEPT ![c] = Append(@, Step("ngram", n[Frame(c)]))]
  /\ IF NgramRaises(source_tokens[Frame(c)], n[Frame(c)])
     THEN pc' = [pc EXCEPT ![c] = "raised"] /\ UNCHANGED <<result, n>>
     ELSE IF has_ngram_repetition(translated_tokens[Frame(c)],
                                  source_tokens[Frame(c)], n[Frame(c)])
          THEN CallReturn(c, TRUE) /\ UNCHANGED n
          ELSE /\ n' = [n EXCEPT ![Frame(c)] = @ + 1]
               /\ UNCHANGED <<pc, result>>
  /\ UNCHANGED <<source_sentence, translated_sentence, translated_tokens,
                 source_tokens, detector, response>>

CallLoopExit(c) ==
  /\ pc[c] = "loop"
  /\ ~(n[Frame(c)]
         < DetectorLoopBound(detector[c], translated_tokens[Frame(c)]))
  /\ CallReturn(c, FALSE)
  /\ UNCHANGED <<source_sentence, translated_sentence, translated_tokens,
                 source_tokens, n, trace, detector, response>>

ConcNext ==
  \E c \in Calls :
    \/ CallCreate(c)
    \/ CallElongation(c)
    \/ CallTokenize(c)
    \/ CallNgram(c)
    \/ CallLoopExit(c)

ConcSpec == ConcInit /\ [][ConcNext]_vars

(***************************************************************************)
(* The /stammering endpoint (main.py, lines 122-153).  The handler builds  *)
(* a StammeringRequest, whose two fields have min_length = 1; pydantic's   *)
(* ValidationError is a ValueError, which the handler answers with 400.    *)
(* A valid request runs detect_stammering, the steps of the single call    *)
(* above, and is answered with the verdict; a ValueError raised by the     *)
(* detection is answered with 400 as well, any other exception with 500.   *)
(***************************************************************************)
MaxEndpointTokens == 3

EndpointTexts ==
  {Render(words, "plain") : words \in WordSeqs(Vocabulary, MaxEndpointTokens)}
  \cup {<<" ">>, Repeat(<<"o">>, ElongationFloor + 1)}

MinLength(text, length) == Len(text) >= length

StammeringRequest_source_only(source, translated) ==
  MinLength(source, 1)

StammeringRequest(source, translated) ==
  MinLength(source, 1) /\ MinLength(translated, 1)

StammeringResponse(has_stammer) == [status |-> 200, has_stammer |-> has_stammer]

HTTPException(status_code) == [status |-> status_code]

EndpointInit ==
  \E source \in EndpointTexts : \E translated \in EndpointTexts :
    /\ source_sentence = source
    /\ translated_sentence = translated
    /\ pc = "request"
    /\ result = FALSE
    /\ translated_tokens = <<>>
    /\ source_tokens = <<>>
    /\ n = 0
    /\ trace = <<>>
    /\ detector = NoDetector
    /\ response = NoResponse

ValidateRequest ==
  /\ pc = "request"
  /\ IF StammeringRequest(source_sentence, translated_sentence)
     THEN /\ pc' = "detect"
          /\ detector' = NewDetector
          /\ UNCHANGED response
     ELSE /\ pc' = "responded"
          /\ response' = HTTPException(400)
          /\ UNCHANGED detector
  /\ UNCHANGED <<source_sentence, translated_sentence, result,
                 translated_tokens, source_tokens, n, trace>>

Respond ==
  /\ pc \in {"done", "raised"}
  /\ response' = IF pc = "raised" THEN HTTPException(400)
                 ELSE StammeringResponse(result)
  /\ pc' = "responded"
  /\ UNCHANGED <<source_sentence, translated_sentence, result,
                 translated_tokens, source_tokens, n, trace, detector>>

EndpointNext ==
  \/ ValidateRequest
  \/ CheckElongation
  \/ Tokenize
  \/ CheckNgram
  \/ LoopExit
  \/ Respond

EndpointSpec == EndpointInit /\ [][EndpointNext]_vars

(***************************************************************************)
(* Vocabulary of the properties, stated on the inputs of the call and      *)
(* independently of the scans above.                                       *)
(***************************************************************************)
Done == pc = "done"

TransTokens == tokenize(translated_sentence)

SrcTokens == tokenize(source_sentence)

TransGrams(size) == get_ngrams(TransTokens, size)

SrcGrams(size) == get_ngrams(SrcTokens, size)

TestedSizes == {size \in 1..5 : size < Len(TransTokens)}

InLongRun(text, k) ==
  \E i \in (k - 2)..k :
    /\ i >= 1 /\ i + 2 <= Len(text)
    /\ text[i] = text[i + 1] /\ text[i + 1] = text[i + 2]

(***************************************************************************)
(* The number of characters lying in a run of 3 or more identical          *)
(* alphanumeric characters of the lowercased text: maximal runs are        *)
(* disjoint, so this is the sum of the lengths of these runs.              *)
(***************************************************************************)
RunScore(text) ==
  LET low == Lower(text)
  IN  Cardinality({k \in 1..Len(low) : IsAlnum(low[k]) /\ InLongRun(low, k)})

Occurrences(seq, g) == Cardinality({i \in 1..Len(seq) : seq[i] = g})

Values(seq) == {seq[i] : i \in 1..Len(seq)}

MaxFreq(seq) ==
  IF seq = <<>> THEN 0
  ELSE CHOOSE m \in 1..Len(seq) :
         /\ \E g \in Values(seq) : Occurrences(seq, g) = m
         /\ \A g \in Values(seq) : Occurrences(seq, g) <= m

HasRun(seq, g, len) ==
  \E i \in 1..(Len(seq) - len + 1) : \A k \in i..(i + len - 1) : seq[k] = g

LongestRun(seq) ==
  IF seq = <<>> THEN 0
  ELSE CHOOSE m \in 1..Len(seq) :
         /\ \E g \in Values(seq) : HasRun(seq, g, m)
         /\ \A g \in Values(seq) : ~HasRun(seq, g, m + 1)

ElongationFlag ==
  RunScore(translated_sentence) > 40
  /\ RunScore(translated_sentence) > 3 * RunScore(source_sentence)

FrequencyFires(size) ==
  \E g \in Values(TransGrams(size)) :
    /\ Occurrences(TransGrams(size), g) >= 3
    /\ 2 * Occurrences(TransGrams(size), g) > 3 * MaxFreq(SrcGrams(size))

ConsecutiveFires(size) ==
  \E g \in Values(TransGrams(size)) :
    /\ HasRun(TransGrams(size), g, 3)
    /\ \/ LongestRun(SrcGrams(size)) < 3
       \/ HasRun(TransGrams(size), g, 2 * LongestRun(SrcGrams(size)) + 1)

ElongationReturned == Len(trace) = 1 /\ Done

LastStep == trace[Len(trace)]

(***************************************************************************)
(* C1: detect returns true if and only if the elongation check is true or  *)
(* some tested n-gram size (1 <= n <= 5) fires the frequency check or the  *)
(* consecutive-run check; otherwise it returns false.                      *)
(***************************************************************************)
C1_DetectIsDisjunction ==
  Done =>
    (result <=> (ElongationFlag
                 \/ \E size \in TestedSizes :
                      FrequencyFires(size) \/ ConsecutiveFires(size)))

C1_Witness ==
  /\ Done /\ result
  /\ ~ElongationFlag
  /\ ~FrequencyFires(1) /\ ~ConsecutiveFires(1)
  /\ ~FrequencyFires(2) /\ ConsecutiveFires(2)

(***************************************************************************)
(* C2: the elongation check is the first step of every call; when it is    *)
(* true the call returns true at once, with no tokenization and no n-gram  *)
(* step; and once an n-gram size fires the call returns true without       *)
(* examining a larger size.  Sizes are examined in ascending order.        *)
(***************************************************************************)
C2_ShortCircuit ==
  /\ trace # <<>> => trace[1].step = "elongation"
  /\ \A i \in 2..Len(trace) : trace[i].step # "elongation"
  /\ (trace # <<>> /\ ElongationFlag) => (Len(trace) = 1 /\ Done /\ result)
  /\ \A i \in 1..Len(trace) :
       (trace[i].step = "ngram"
        /\ (FrequencyFires(trace[i].size) \/ ConsecutiveFires(trace[i].size)))
       => (i = Len(trace) /\ Done /\ result)
  /\ \A i \in 1..Len(trace) : \A j \in 1..Len(trace) :
       (i < j /\ trace[i].step = "ngram" /\ trace[j].step = "ngram")
       => trace[i].size < trace[j].size

C2_Witness ==
  /\ Done /\ result
  /\ LastStep.step = "ngram" /\ LastStep.size = 1
  /\ 2 \in TestedSizes
  /\ FrequencyFires(2)

C4_FrequencyRule ==
  Done =>
    /\ \A size \in TestedSizes : FrequencyFires(size) => result
    /\ \A size \in 1..5 :
         FrequencyCheck(TransGrams(size), SrcGrams(size), size)
           <=> FrequencyFires(size)
    /\ \A size \in 1..5 :
         (\A g \in Values(TransGrams(size)) :
            Occurrences(TransGrams(size), g) < 3)
         => ~FrequencyCheck(TransGrams(size), SrcGrams(size), size)

C4_Witness ==
  /\ Done /\ result
  /\ ~ElongationFlag
  /\ ~FrequencyFires(1) /\ ~ConsecutiveFires(1)
  /\ LastStep.step = "ngram" /\ LastStep.size = 2
  /\ FrequencyFires(2) /\ ~ConsecutiveFires(2)
  /\ MaxFreq(SrcGrams(2)) > 0

(***************************************************************************)
(* C5: at a tested size where the frequency check did not fire and the     *)
(* source's longest run of identical consecutive n-grams is S >= 3, the    *)
(* size fires iff some n-gram has a run longer than 2 * S in the           *)
(* translated sequence.                                                    *)
(***************************************************************************)
C5_ConsecutiveWithRepeatingSource ==
  Done =>
    \A size \in TestedSizes :
      (/\ ~FrequencyCheck(TransGrams(size), SrcGrams(size), size)
       /\ LongestRun(SrcGrams(size)) >= 3)
      => (has_ngram_repetition(TransTokens, SrcTokens, size)
          <=> \E g \in Values(TransGrams(size)) :
                HasRun(TransGrams(size), g,
                       2 * LongestRun(SrcGrams(size)) + 1))

C5_Witness ==
  /\ Done /\ result
  /\ LastStep.step = "ngram" /\ LastStep.size = 2
  /\ ~FrequencyCheck(TransGrams(2), SrcGrams(2), 2)
  /\ LongestRun(SrcGrams(2)) >= 3
  /\ \E g \in Values(TransGrams(2)) :
       HasRun(TransGrams(2), g, 2 * LongestRun(SrcGrams(2)) + 1)

(***************************************************************************)
(* C6: when, at a tested size, the translated n-gram sequence holds 3      *)
(* identical consecutive entries (for n = 1: 3 identical tokens in a row)  *)
(* and the source sequence of that size has no run of 3 or more, detect    *)
(* returns true.                                                           *)
(***************************************************************************)
C6_RunWithoutSourcePattern ==
  Done =>
    /\ ((\E g \in Values(TransTokens) : HasRun(TransTokens, g, 3))
        /\ LongestRun(SrcTokens) < 3) => result
    /\ \A size \in TestedSizes :
         ((\E g \in Values(TransGrams(size)) : HasRun(TransGrams(size), g, 3))
          /\ LongestRun(SrcGrams(size)) < 3) => result

C6_Witness ==
  /\ Done /\ result
  /\ ~ElongationFlag
  /\ ~FrequencyFires(1)
  /\ \E g \in Values(TransTokens) : HasRun(TransTokens, g, 3)
  /\ LongestRun(SrcTokens) = 2

(***************************************************************************)
(* C7: every call ends with a boolean and never raises, whatever the two   *)
(* texts (empty, whitespace-only and single-token texts included): it     *)
(* never reaches a raise, every step before the return advances the trace  *)
(* (the loop can always take its next step), and the call takes at most    *)
(* max_ngram_size + 2 steps; the n-gram                                    *)
(* sequence of a token sequence shorter than n is empty, and a size larger *)
(* than the translated token count, or one with fewer than 3 translated    *)
(* n-grams to window, fires nothing.                                       *)
(***************************************************************************)
C7_NeverRaises ==
  /\ pc \in {"detect", "phrase", "loop", "done"}
  /\ result \in BOOLEAN
  /\ pc = "detect" => trace = <<>>
  /\ pc = "phrase" => Len(trace) = 1
  /\ pc = "loop" =>
       /\ ENABLED (CheckNgram \/ LoopExit)
       /\ n >= 1 /\ n <= max_ngram_size + 1
       /\ Len(trace) = n + 1
  /\ Len(trace) <= max_ngram_size + 2
  /\ Done =>
       \A size \in 1..(max_ngram_size + 1) :
         /\ Len(TransTokens) < size => TransGrams(size) = <<>>
         /\ Len(SrcTokens) < size => SrcGrams(size) = <<>>
         /\ ~NgramRaises(SrcTokens, size)
         /\ Len(TransTokens) < size
              => ~has_ngram_repetition(TransTokens, SrcTokens, size)
         /\ Len(TransGrams(size)) < min_repetitions
              => ~ConsecutiveCheck(TransGrams(size), SrcGrams(size))

C7_Witness ==
  /\ Done /\ ~result
  /\ translated_sentence # <<>> /\ TransTokens = <<>>
  /\ Len(SrcTokens) = 1

(***************************************************************************)
(* C8: detect is case-insensitive: uppercasing the source, the translated  *)
(* text, or both, does not change the result.                              *)
(***************************************************************************)
C8_CaseInsensitive ==
  Done =>
    /\ detect(Upper(source_sentence), translated_sentence) = result
    /\ detect(source_sentence, Upper(translated_sentence)) = result
    /\ detect(Upper(source_sentence), Upper(translated_sentence)) = result

(***************************************************************************)
(* C9: once detect(s, t) is true, it stays true when one or more           *)
(* whitespace-separated copies of a word (t's last token in particular)    *)
(* are appended to t.                                                      *)
(***************************************************************************)
RawTokens(text) == Split(text)

AppendWords(text) ==
  {<<"a">>, <<"B">>, <<"s", "s">>, <<"o", "o", "o">>, <<"?">>}
  \cup (IF RawTokens(text) = <<>> THEN {}
        ELSE {RawTokens(text)[Len(RawTokens(text))]})

Appended(text, word, copies) == text \o Repeat(<<" ">> \o word, copies)

C9_Monotone ==
  (Done /\ result) =>
    \A word \in AppendWords(translated_sentence) : \A copies \in 1..MaxAppend :
      detect(source_sentence, Appended(translated_sentence, word, copies))

C9_Witness ==
  /\ Done /\ result
  /\ ~ElongationFlag
  /\ LongestRun(SrcTokens) >= 3
  /\ ~FrequencyFires(1)
  /\ LastStep.step = "ngram" /\ LastStep.size = 1

(***************************************************************************)
(* C10: for every source, a translated text in which no token occurs 3 or  *)
(* more times and whose elongation score is at most 40 is not flagged.     *)
(***************************************************************************)
C10_SourceRepetitionAlone ==
  Done =>
    (((\A g \in Values(TransTokens) : Occurrences(TransTokens, g) < 3)
      /\ RunScore(translated_sentence) <= 40) => ~result)

C10_Witness ==
  /\ Done /\ ~result
  /\ \A g \in Values(TransTokens) : Occurrences(TransTokens, g) < 3
  /\ Len(TransTokens) >= 3
  /\ LongestRun(SrcTokens) >= 4
  /\ LongestRun(SrcGrams(2)) >= 3

(***************************************************************************)
(* C11: a translation that repeats no more than the source is not flagged: *)
(* when the source is k >= 1 whitespace-separated copies of one word and   *)
(* the translated text is j copies of one word, 1 <= j <= k, neither word  *)
(* holding 3 identical characters in a row, detect returns false.          *)
(***************************************************************************)
NoTripleChar(word) == \A i \in 1..Len(word) : ~InLongRun(word, i)

CopiesOfOneWord(text) ==
  /\ RawTokens(text) # <<>>
  /\ Cardinality(Values(RawTokens(text))) = 1
  /\ NoTripleChar(RawTokens(text)[1])

C11_NoMoreThanSource ==
  Done =>
    ((/\ CopiesOfOneWord(source_sentence)
      /\ CopiesOfOneWord(translated_sentence)
      /\ Len(RawTokens(translated_sentence))
           <= Len(RawTokens(source_sentence)))
     => ~result)

C11_Witness ==
  /\ Done /\ ~result
  /\ CopiesOfOneWord(source_sentence)
  /\ CopiesOfOneWord(translated_sentence)
  /\ Len(RawTokens(source_sentence)) >= 4
  /\ Len(RawTokens(translated_sentence)) = Len(RawTokens(source_sentence))
  /\ LastStep.step = "ngram" /\ LastStep.size >= 3

(***************************************************************************)
(* C12: concurrent calls of detect_stammering share no mutable state:      *)
(* under every interleaving a call that has returned holds the result it   *)
(* returns when run alone, the fields min_repetitions = 3 and              *)
(* max_ngram_size = 5 of a constructed detector are never modified, and    *)
(* two calls with the same arguments return the same result.               *)
(***************************************************************************)
C12_CallsIndependent ==
  /\ \A c \in Calls :
       /\ pc[c] \in {"call", "detect", "phrase", "loop", "done"}
       /\ pc[c] = "call" => detector[c] = NoDetector
       /\ pc[c] # "call" =>
            detector[c] = [min_repetitions |-> 3, max_ngram_size |-> 5]
       /\ pc[c] = "done" =>
            result[c] = detect(source_sentence[c], translated_sentence[c])
  /\ \A c \in Calls : \A e \in Calls :
       (/\ pc[c] = "done" /\ pc[e] = "done"
        /\ source_sentence[c] = source_sentence[e]
        /\ translated_sentence[c] = translated_sentence[e])
       => result[c] = result[e]

C12_Witness ==
  \E c \in Calls : \E e \in Calls :
    /\ c # e
    /\ pc[c] = "done" /\ result[c]
    /\ trace[c][Len(trace[c])].step = "ngram"
    /\ pc[e] = "loop" /\ n[e] >= 2
    /\ translated_tokens[e] # translated_tokens[c]
    /\ ~detect(source_sentence[e], translated_sentence[e])

(***************************************************************************)
(* C13: at the /stammering boundary the detector runs only after both      *)
(* texts passed the minimum-length (>= 1 character) validation: a request  *)
(* with an empty string is answered with a client error, never with a      *)
(* server error or a verdict, and no step of the detector runs for it; a   *)
(* request that passes is answered with has_stammer equal to the           *)
(* detector's verdict.                                                     *)
(***************************************************************************)
DetectorInvoked == trace # <<>> \/ detector # NoDetector

Responded == pc = "responded"

C13_ValidatedBoundary ==
  /\ DetectorInvoked =>
       (Len(source_sentence) >= 1 /\ Len(translated_sentence) >= 1)
  /\ (source_sentence = <<>> \/ translated_sentence = <<>>) =>
       /\ ~DetectorInvoked
       /\ pc \in {"request", "responded"}
       /\ Responded =>
            /\ response.status \in 400..499
            /\ "has_stammer" \notin DOMAIN response
  /\ (Responded /\ source_sentence # <<>> /\ translated_sentence # <<>>) =>
       response = [status |-> 200,
                   has_stammer |-> detect(source_sentence,
                                          translated_sentence)]
  /\ response.status # 500

C13_Witness ==
  /\ Responded
  /\ Len(tokenize(source_sentence)) = 3
  /\ translated_sentence = <<>>
  /\ response.status = 400
  /\ ~DetectorInvoked

(***************************************************************************)
(* C14: the n-gram sizes a call examines are 1, 2, ..., in ascending order *)
(* without a gap, up to the first size that fires or else up to            *)
(* min(5, len(translated_tokens) - 1): no size above 5 and no size         *)
(* n >= len(translated_tokens) is examined, a 3-token translation is       *)
(* checked at n = 1 and n = 2 only, and one of 0 or 1 tokens at no size.   *)
(***************************************************************************)
ExaminedSizes ==
  [i \in 1..Len(SelectSeq(trace, LAMBDA st : st.step = "ngram")) |->
     SelectSeq(trace, LAMBDA st : st.step = "ngram")[i].size]

LastSize == IF 5 < Len(TransTokens) - 1 THEN 5 ELSE Len(TransTokens) - 1

Fires(size) == FrequencyFires(size) \/ ConsecutiveFires(size)

C14_ExaminedSizes ==
  /\ \A i \in 1..Len(ExaminedSizes) :
       /\ ExaminedSizes[i] = i
       /\ i <= 5
       /\ i < Len(TransTokens)
       /\ i < Len(ExaminedSizes) => ~Fires(i)
  /\ (Done /\ ~ElongationReturned) =>
       /\ ~result => (Len(ExaminedSizes) = LastSize \/
                        (ExaminedSizes = <<>> /\ LastSize <= 0))
       /\ result => (ExaminedSizes # <<>> /\ Fires(Len(ExaminedSizes)))
       /\ Len(TransTokens) = 3 => Values(ExaminedSizes) \subseteq {1, 2}
       /\ Len(TransTokens) <= 1 => ExaminedSizes = <<>>
  /\ ElongationReturned => ExaminedSizes = <<>>

C14_Witness ==
  /\ Done /\ ~result
  /\ Len(TransTokens) >= 7
  /\ ExaminedSizes = <<1, 2, 3, 4, 5>>

(***************************************************************************)
(* C15: the excluded size n = len(translated_tokens) is unobservable.  A   *)
(* size whose translated n-gram sequence has fewer than 3 entries fires    *)
(* neither the frequency check nor the consecutive-run check, so running   *)
(* the checks for every n in 1..min(5, len(translated_tokens)) gives the   *)
(* verdict of the call; and a translation of fewer than 3 tokens is        *)
(* flagged only when the elongation check fires.                           *)
(***************************************************************************)
InclusiveSizes ==
  1..(IF 5 < Len(TransTokens) THEN 5 ELSE Len(TransTokens))

C15_ExcludedSizeUnobservable ==
  Done =>
    /\ \A size \in 1..6 :
         Len(TransGrams(size)) < 3 =>
           /\ ~FrequencyCheck(TransGrams(size), SrcGrams(size), size)
           /\ ~ConsecutiveCheck(TransGrams(size), SrcGrams(size))
           /\ ~Fires(size)
    /\ result <=>
         (\/ has_excessive_elongation(translated_sentence, source_sentence)
          \/ \E size \in InclusiveSizes :
               has_ngram_repetition(TransTokens, SrcTokens, size))
    /\ (Len(TransTokens) < 3 /\ result) =>
         (ElongationReturned /\ ElongationFlag)

C15_Witness ==
  /\ Done /\ ~result
  /\ Len(TransTokens) = 2
  /\ TransTokens[1] = TransTokens[2]
  /\ Len(TransGrams(2)) = 1
  /\ Len(SrcTokens) = 1
  /\ SrcGrams(2) = <<>>
  /\ ExaminedSizes = <<1>>

=============================================================================
